---------------------------- MODULE Spec2Model ----------------------------
(***************************************************************************)
(* Byte-level model of ObjectAllocator (ObjectAllocator.cpp, the           *)
(* documented copy of the implementation).  A page is a run of bytes of    *)
(* host memory; the page list and the free list are the intrusive links    *)
(* the code stores in the first machine word of a page / of a free block.  *)
(* Unsigned 32-bit counters are kept as their 32-bit pattern (read as a    *)
(* two's complement integer), so that ++ and -- wrap as in the code.       *)
(***************************************************************************)
EXTENDS Integers, Sequences, FiniteSets, TLC

VARIABLES
    cfg,        \* myConfig (without DebugOn_) and myStats.ObjectSize_: fixed by the constructor
    DebugOn_,   \* myConfig.DebugOn_
    PageList_,  \* head of the page list (0 is NULL)
    FreeList_,  \* head of the free list (0 is NULL)
    mem,        \* host memory owned through new[]: address -> byte, the live pages
    myStats,    \* the counters of OAStats
    heap,       \* live MemBlockInfo records: address -> record
    ub,         \* undefined behaviour has happened: a write outside live memory, an invalid delete
    held,       \* the pointers the caller got from Allocate and has not passed to Free
    maxSeen,    \* history: largest ObjectsInUse_ observed so far
    onlyAllocs, \* history: every call so far was Allocate
    scribbles,  \* history: number of caller writes so far
    last,       \* the last call: operation, argument, outcome, returned value
    prev,       \* history: the call before the last one, if it was a Free that returned
                \* or a FreeEmptyPages
    reported    \* the blocks the last call called its callback with, in order

vars == <<cfg, DebugOn_, PageList_, FreeList_, mem, myStats, heap, ub, held,
          maxSeen, onlyAllocs, scribbles, last, prev, reported>>

-----------------------------------------------------------------------------
(* Bounds of the model *)

MaxAllocs == 3      \* Allocate calls explored (Allocations_ is unbounded in the code)
MaxFrees == 2       \* successful Free calls explored (Deallocations_ is unbounded)
MaxScribbles == 1   \* caller writes explored

-----------------------------------------------------------------------------
(* Platform and header-file constants *)

PtrSize == 8                \* sizeof(void*)
UNALLOCATED_PATTERN == 170  \* 0xAA
ALLOCATED_PATTERN == 187    \* 0xBB
FREED_PATTERN == 204        \* 0xCC
PAD_PATTERN == 221          \* 0xDD
ALIGN_PATTERN == 238        \* 0xEE
BASIC_HEADER_SIZE == 5      \* sizeof(unsigned) + 1
EXTERNAL_HEADER_SIZE == 8   \* sizeof(void*)

NULL == 0
WildPtr == -1               \* any pointer value that is no address of the model

\* HeaderBlockInfo::size_ as the header file computes it from the type
HeaderSize(type, additional) ==
    CASE type = "hbNone" -> 0
      [] type = "hbBasic" -> BASIC_HEADER_SIZE
      [] type = "hbExtended" -> 4 + 2 + 1 + additional
      [] type = "hbExternal" -> EXTERNAL_HEADER_SIZE

-----------------------------------------------------------------------------
(* unsigned arithmetic on 32-bit patterns *)

MaxInt32 == 2147483647
MinInt32 == -MaxInt32 - 1

U32Inc(x) == IF x = MaxInt32 THEN MinInt32 ELSE x + 1
U32Dec(x) == IF x = MinInt32 THEN MaxInt32 ELSE x - 1
RECURSIVE U32Add(_, _)
U32Add(x, n) == IF n = 0 THEN x ELSE U32Add(U32Inc(x), n - 1)
\* x > y on the unsigned values
U32Gt(x, y) == IF (x < 0) = (y < 0) THEN x > y ELSE x < 0

-----------------------------------------------------------------------------
(* Layout, as the constructor computes it *)

HSize(c) == HeaderSize(c.HType, c.additional_)
leftTotalSize(c) == HSize(c) + c.PadBytes_ + PtrSize
LeftAlignSize_(c) == IF c.Alignment_ # 0 THEN leftTotalSize(c) % c.Alignment_ ELSE 0
leftPageSectionSizeOf(c) == leftTotalSize(c) + LeftAlignSize_(c)
interTotalSize(c) == HSize(c) + c.PadBytes_ * 2 + c.ObjectSize_
InterAlignSize_(c) == IF c.Alignment_ # 0 THEN interTotalSize(c) % c.Alignment_ ELSE 0
interPageSectionSizeOf(c) == interTotalSize(c) + InterAlignSize_(c)
PageSizeOf(c) ==
    c.ObjectsPerPage_ * c.ObjectSize_
    + c.ObjectsPerPage_ * c.PadBytes_ * 2
    + HSize(c) * c.ObjectsPerPage_
    + (LeftAlignSize_(c) + InterAlignSize_(c) * (c.ObjectsPerPage_ - 1))
    + PtrSize

leftPageSectionSize == leftPageSectionSizeOf(cfg)
interPageSectionSize == interPageSectionSizeOf(cfg)
PageSize_ == PageSizeOf(cfg)

-----------------------------------------------------------------------------
(* Host memory *)

\* *(a); a read outside the live pages yields the byte `wild`
RdByte(m, a, wild) == IF a \in DOMAIN m THEN m[a] ELSE wild

\* memset(a, v, n); bytes outside the live pages are not part of the model
memset(m, a, v, n) ==
    [x \in DOMAIN m |-> IF a <= x /\ x < a + n THEN v ELSE m[x]]

OutOfBounds(m, a, n) == \E x \in a..(a + n - 1) : x \notin DOMAIN m

\* The little-endian bytes of a pointer value
PtrByte(v, i) ==
    IF v = WildPtr THEN 255
    ELSE IF i = 0 THEN v % 256
    ELSE IF i = 1 THEN (v \div 256) % 256
    ELSE 0

\* store a pointer: *(void**)a = v
WritePtr(m, a, v) ==
    [x \in DOMAIN m |-> IF a <= x /\ x < a + PtrSize THEN PtrByte(v, x - a) ELSE m[x]]

\* load a pointer: *(void**)a
ReadPtr(m, a, wild) ==
    IF \A i \in 2..(PtrSize - 1) : RdByte(m, a + i, wild) = 0
    THEN RdByte(m, a, wild) + 256 * RdByte(m, a + 1, wild)
    ELSE WildPtr

\* store an unsigned of n bytes (memcpy of a small value)
WriteUInt(m, a, v, n) ==
    [x \in DOMAIN m |->
        IF a <= x /\ x < a + n
        THEN (IF x - a = 0 THEN v % 256
              ELSE IF x - a = 1 THEN (v \div 256) % 256
              ELSE IF x - a = 2 THEN (v \div 65536) % 256
              ELSE (v \div 16777216) % 256)
        ELSE m[x]]

\* load an unsigned short
ReadU16(m, a, wild) == RdByte(m, a, wild) + 256 * RdByte(m, a + 1, wild)


-----------------------------------------------------------------------------
(* The allocator's private helpers.  st is the mutable part of the object  *)
(* and of the host: [cfg, DebugOn_, mem, PageList_, FreeList_, stats, heap,   *)
(* ub, hang].                                                              *)

\* set_mem_and_move: the memset; the caller advances the iterator by size
set_mem_and_move(st, begin, value, size) ==
    [st EXCEPT !.mem = memset(st.mem, begin, value, size),
               !.ub = st.ub \/ OutOfBounds(st.mem, begin, size)]

\* set_non_data_block_pattern: alignment bytes, zeroed header, left padding
set_non_data_block_pattern(st, begin, alignSize) ==
    LET s1 == set_mem_and_move(st, begin, ALIGN_PATTERN, alignSize)
        s2 == set_mem_and_move(s1, begin + alignSize, 0, HSize(st.cfg))
    IN  set_mem_and_move(s2, begin + alignSize + HSize(st.cfg), PAD_PATTERN, st.cfg.PadBytes_)

\* move_freelist: push the block at position on the free list
move_freelist(st, position) ==
    [st EXCEPT !.mem = WritePtr(st.mem, position, st.FreeList_),
               !.FreeList_ = position,
               !.ub = st.ub \/ OutOfBounds(st.mem, position, PtrSize)]

\* put_on_freelist that links the block behind the head of the list (C12 depends on
\* the block becoming the head)
put_on_freelist_BehindHead(st, Object) ==
    IF st.FreeList_ = NULL
    THEN [st EXCEPT !.mem = WritePtr(st.mem, Object, NULL),
                    !.FreeList_ = Object,
                    !.ub = st.ub \/ OutOfBounds(st.mem, Object, PtrSize)]
    ELSE [st EXCEPT !.mem = WritePtr(WritePtr(st.mem, Object, ReadPtr(st.mem, st.FreeList_, 0)),
                                     st.FreeList_, Object),
                    !.ub = st.ub \/ OutOfBounds(st.mem, Object, PtrSize)]

\* put_on_freelist
put_on_freelist(st, Object) ==
    [st EXCEPT !.mem = WritePtr(st.mem, Object, st.FreeList_),
               !.FreeList_ = Object,
               !.ub = st.ub \/ OutOfBounds(st.mem, Object, PtrSize)]

\* the two while loops of initialize_page: one block pushed per iteration
RECURSIVE InitInterBlocks(_, _, _)
InitInterBlocks(st, pageBegin, pageIterator) ==
    IF (pageIterator + interPageSectionSizeOf(st.cfg)) - pageBegin < PageSizeOf(st.cfg)
    THEN IF st.DebugOn_
         THEN LET s1 == set_mem_and_move(st, pageIterator + st.cfg.ObjectSize_,
                                         PAD_PATTERN, st.cfg.PadBytes_)
                  it1 == pageIterator + st.cfg.ObjectSize_ + st.cfg.PadBytes_
                  s2 == set_non_data_block_pattern(s1, it1, InterAlignSize_(st.cfg))
                  it2 == it1 + InterAlignSize_(st.cfg) + HSize(st.cfg) + st.cfg.PadBytes_
              IN  InitInterBlocks(move_freelist(s2, it2), pageBegin, it2)
         ELSE LET it2 == pageIterator + interPageSectionSizeOf(st.cfg)
              IN  InitInterBlocks(move_freelist(st, it2), pageBegin, it2)
    ELSE IF st.DebugOn_
         THEN \* the last block's right padding
              set_mem_and_move(st, pageIterator + st.cfg.ObjectSize_, PAD_PATTERN, st.cfg.PadBytes_)
         ELSE st

\* initialize_page
initialize_page(st, pageListBegin) ==
    IF st.DebugOn_
    THEN LET it0 == pageListBegin + PtrSize
             s1 == set_non_data_block_pattern(st, it0, LeftAlignSize_(st.cfg))
             it1 == it0 + LeftAlignSize_(st.cfg) + HSize(st.cfg) + st.cfg.PadBytes_
         IN  InitInterBlocks(move_freelist(s1, it1), pageListBegin, it1)
    ELSE LET it1 == pageListBegin + leftPageSectionSizeOf(st.cfg)
         IN  InitInterBlocks(move_freelist(st, it1), pageListBegin, it1)

\* new unsigned char[PageSizeOf(st.cfg)]: the bytes start as whatever the host left there
HostNewPage(st, base, fill) ==
    [x \in (DOMAIN st.mem) \cup (base..(base + PageSizeOf(st.cfg) - 1)) |->
        IF x >= base /\ x < base + PageSizeOf(st.cfg) THEN fill ELSE st.mem[x]]

\* the bookkeeping at the end of allocate_new_page
\* PageBookkeeping without the new page's blocks counted as free (C2 depends on it)
PageBookkeeping_NoFreeObjects(st) ==
    [st.stats EXCEPT !.PagesInUse_ = U32Inc(@)]

\* PageBookkeeping without the count of the page (C36 depends on it)
PageBookkeeping_NoPagesInUse(st) ==
    [st.stats EXCEPT !.FreeObjects_ = U32Add(@, st.cfg.ObjectsPerPage_)]

PageBookkeeping(st) ==
    [st.stats EXCEPT !.PagesInUse_ = U32Inc(@),
                  !.FreeObjects_ = U32Add(@, st.cfg.ObjectsPerPage_)]

\* allocate_new_page without the MaxPages_ limit (C5 depends on it)
allocate_new_page_NoLimit(st, base, fill) ==
    IF base = 0
    THEN [st |-> st, err |-> "E_NO_MEMORY"]
    ELSE LET m1 == HostNewPage(st, base, fill)
             m2 == IF st.DebugOn_ THEN memset(m1, base, UNALLOCATED_PATTERN, PageSizeOf(st.cfg)) ELSE m1
             m3 == WritePtr(m2, base, st.PageList_)
             s1 == [st EXCEPT !.mem = m3, !.PageList_ = base]
             s2 == initialize_page(s1, base)
         IN  [st |-> [s2 EXCEPT !.stats = PageBookkeeping(s2)], err |-> "Ok"]

\* allocate_new_page; base = 0 when the host refuses the request (std::bad_alloc)
allocate_new_page(st, base, fill) ==
    IF st.cfg.MaxPages_ # 0 /\ st.stats.PagesInUse_ = st.cfg.MaxPages_
    THEN [st |-> st, err |-> "E_NO_PAGES"]
    ELSE IF base = 0
    THEN [st |-> st, err |-> "E_NO_MEMORY"]
    ELSE LET m1 == HostNewPage(st, base, fill)
             m2 == IF st.DebugOn_ THEN memset(m1, base, UNALLOCATED_PATTERN, PageSizeOf(st.cfg)) ELSE m1
             m3 == WritePtr(m2, base, st.PageList_)
             s1 == [st EXCEPT !.mem = m3, !.PageList_ = base]
             s2 == initialize_page(s1, base)
         IN  [st |-> [s2 EXCEPT !.stats = PageBookkeeping(s2)], err |-> "Ok"]

-----------------------------------------------------------------------------
(* Walks and checks *)

\* the while loop of is_object_in_free_list; a walk that never ends is "hang"
RECURSIVE WalkFreeList(_, _, _, _, _)
WalkFreeList(m, cur, Object, seen, wild) ==
    IF cur = NULL THEN "no"
    ELSE IF cur = Object THEN "yes"
    ELSE IF cur \in seen THEN "hang"
    ELSE WalkFreeList(m, ReadPtr(m, cur, wild), Object, seen \cup {cur}, wild)

\* is_object_in_free_list: "yes" (true), "no" (false) or "hang"
is_object_in_free_list(st, Object, wild) ==
    IF st.cfg.HType \in {"hbBasic", "hbExtended"}
    THEN IF RdByte(st.mem, Object - st.cfg.PadBytes_ - 1, wild) = 0 THEN "yes" ELSE "no"
    ELSE LET blockInfo == ReadPtr(st.mem, Object - st.cfg.PadBytes_ - HSize(st.cfg), wild)
         IN  IF st.cfg.HType = "hbExternal" /\ blockInfo # NULL
             THEN \* return blockInfo->in_use
                  IF blockInfo \in DOMAIN st.heap
                  THEN (IF st.heap[blockInfo].in_use THEN "yes" ELSE "no")
                  ELSE (IF wild # 0 THEN "yes" ELSE "no")
             ELSE WalkFreeList(st.mem, st.FreeList_, Object, {}, wild)

\* check_double_free: the error it throws, or "Ok"
check_double_free(st, Object, wild) ==
    IF st.cfg.ObjectSize_ > PtrSize
    THEN IF RdByte(st.mem, Object + PtrSize, wild) = FREED_PATTERN
         THEN "E_MULTIPLE_FREE" ELSE "Ok"
    ELSE LET r == is_object_in_free_list(st, Object, wild)
         IN  IF r = "yes" THEN "E_MULTIPLE_FREE" ELSE IF r = "hang" THEN "Hang" ELSE "Ok"

\* check_corruption: head padding from Object - PadBytes_ up to Object - 1, tail
\* padding from objectEnd + PadBytes_ - 1 down to, and not including, objectEnd
check_corruption(st, Object, wild) ==
    IF st.cfg.PadBytes_ = 0 THEN "Ok"
    ELSE LET objectEnd == Object + st.cfg.ObjectSize_
         IN  IF \E a \in (Object - st.cfg.PadBytes_)..(Object - 1) :
                    RdByte(st.mem, a, wild) # PAD_PATTERN
             THEN "E_CORRUPTED_BLOCK"
             ELSE IF \E a \in (objectEnd + 1)..(objectEnd + st.cfg.PadBytes_ - 1) :
                    RdByte(st.mem, a, wild) # PAD_PATTERN
             THEN "E_CORRUPTED_BLOCK"
             ELSE "Ok"

\* the page search of check_boundary: the page Object is in, or NULL
RECURSIVE FindPage(_, _, _, _, _)
FindPage(st, currentPage, Object, seen, wild) ==
    IF currentPage = NULL \/ currentPage \in seen THEN NULL
    ELSE IF Object > currentPage /\ Object < currentPage + PageSizeOf(st.cfg) THEN currentPage
    ELSE FindPage(st, ReadPtr(st.mem, currentPage, wild), Object,
                  seen \cup {currentPage}, wild)

\* 2^k modulo n
RECURSIVE PowerOfTwoMod(_, _)
PowerOfTwoMod(k, n) == IF k = 0 THEN 1 % n ELSE (2 * PowerOfTwoMod(k - 1, n)) % n

\* (size_t)(Object - firstBlock) % interPageSectionSizeOf(st.cfg), the difference taken in
\* 64-bit unsigned arithmetic
BlockDistanceMod(st, Object, firstBlock) ==
    IF Object >= firstBlock
    THEN (Object - firstBlock) % interPageSectionSizeOf(st.cfg)
    ELSE (PowerOfTwoMod(64, interPageSectionSizeOf(st.cfg))
            + interPageSectionSizeOf(st.cfg) - ((firstBlock - Object) % interPageSectionSizeOf(st.cfg)))
         % interPageSectionSizeOf(st.cfg)

\* check_boundary
check_boundary(st, Object, wild) ==
    LET currentPage == FindPage(st, st.PageList_, Object, {}, wild)
    IN  IF currentPage # NULL
        THEN IF BlockDistanceMod(st, Object, currentPage + leftPageSectionSizeOf(st.cfg)) # 0
             THEN "E_BAD_BOUNDARY" ELSE "Ok"
        ELSE "E_BAD_ADDRESS"

\* the three checks with check_boundary run first (C26 depends on the order)
FreeChecks_BoundaryFirst(st, Object, wild) ==
    LET e1 == check_double_free(st, Object, wild)
        e2 == check_corruption(st, Object, wild)
        e3 == check_boundary(st, Object, wild)
    IN  IF e3 # "Ok" THEN e3 ELSE IF e1 # "Ok" THEN e1 ELSE e2

\* the three checks of Free in the order the code runs them
FreeChecks(st, Object, wild) ==
    LET e1 == check_double_free(st, Object, wild)
        e2 == check_corruption(st, Object, wild)
        e3 == check_boundary(st, Object, wild)
    IN  IF e1 # "Ok" THEN e1 ELSE IF e2 # "Ok" THEN e2 ELSE e3

\* free_external_header: delete the record whose address is stored at object
free_external_header(st, object, wild) ==
    LET blockInfo == ReadPtr(st.mem, object, wild)
    IN  IF blockInfo = NULL THEN st
        ELSE IF blockInfo \in DOMAIN st.heap
        THEN [st EXCEPT !.heap = [r \in (DOMAIN st.heap) \ {blockInfo} |-> st.heap[r]]]
        ELSE [st EXCEPT !.ub = TRUE]

-----------------------------------------------------------------------------
(* Allocate *)

\* the bookkeeping of Allocate
\* AllocBookkeeping without the refresh of MostObjects_ (C4 depends on it)
AllocBookkeeping_NoMostObjects(stats) ==
    [stats EXCEPT !.Allocations_ = U32Inc(@),
                  !.ObjectsInUse_ = U32Inc(@),
                  !.FreeObjects_ = U32Dec(@)]

AllocBookkeeping(stats) ==
    LET inUse == U32Inc(stats.ObjectsInUse_)
    IN  [stats EXCEPT !.Allocations_ = U32Inc(@),
                      !.ObjectsInUse_ = inUse,
                      !.FreeObjects_ = U32Dec(@),
                      !.MostObjects_ = IF U32Gt(inUse, @) THEN inUse ELSE @]

\* the hbExtended case of Allocate's switch, up to the fall through
MarkUsedExtended(st, header, wild) ==
    LET s1 == set_mem_and_move(st, header, 0, st.cfg.additional_)
        at == header + st.cfg.additional_
        counter == (ReadU16(s1.mem, at, wild) + 1) % 65536
    IN  [s1 EXCEPT !.mem = WriteUInt(s1.mem, at, counter, 2),
                   !.ub = s1.ub \/ OutOfBounds(s1.mem, at, 2)]

\* the hbBasic case without the allocation number (C28 depends on it)
MarkUsedBasic_NoNumber(st, header) ==
    set_mem_and_move(st, header + 4, 1, 1)

\* the hbBasic case: allocation number, then the in-use byte
MarkUsedBasic(st, header) ==
    LET s1 == [st EXCEPT !.mem = WriteUInt(st.mem, header, st.stats.Allocations_, 4),
                         !.ub = st.ub \/ OutOfBounds(st.mem, header, 4)]
    IN  set_mem_and_move(s1, header + 4, 1, 1)

\* the hbExternal case; rec = 0: new MemBlockInfo throws; ~labelOK: new char[] throws
MarkUsedExternal(st, header, label, rec, labelOK) ==
    IF rec = 0 THEN [st |-> st, err |-> "bad_alloc"]
    ELSE LET info == [in_use |-> TRUE,
                      label |-> IF label = "NULL" \/ labelOK THEN label ELSE "uninitialized",
                      alloc_num |-> st.stats.Allocations_]
             s1 == [st EXCEPT !.heap = [r \in (DOMAIN st.heap) \cup {rec} |->
                                           IF r = rec THEN info ELSE st.heap[r]]]
         IN  IF label # "NULL" /\ ~labelOK
             THEN [st |-> s1, err |-> "bad_alloc"]
             ELSE [st |-> [s1 EXCEPT !.mem = WritePtr(s1.mem, header, rec),
                                     !.ub = s1.ub \/ OutOfBounds(s1.mem, header, PtrSize)],
                   err |-> "Ok"]

\* the switch on the header type in Allocate
MarkUsed(st, header, label, rec, labelOK, wild) ==
    CASE st.cfg.HType = "hbExtended" ->
            [st |-> MarkUsedBasic(MarkUsedExtended(st, header, wild),
                                  header + st.cfg.additional_ + 2),
             err |-> "Ok"]
      [] st.cfg.HType = "hbBasic" -> [st |-> MarkUsedBasic(st, header), err |-> "Ok"]
      [] st.cfg.HType = "hbExternal" -> MarkUsedExternal(st, header, label, rec, labelOK)
      [] OTHER -> [st |-> st, err |-> "Ok"]

\* Allocate (pool mode): [st, err, ret]
AllocateOp(st, label, base, fill, rec, labelOK, wild) ==
    LET np == IF st.FreeList_ = NULL
              THEN allocate_new_page(st, base, fill)
              ELSE [st |-> st, err |-> "Ok"]
    IN  IF np.err # "Ok" THEN [st |-> st, err |-> np.err, ret |-> NULL]
        ELSE LET s0 == np.st
                 objectToBeReturned == s0.FreeList_
                 s1 == [s0 EXCEPT !.FreeList_ = ReadPtr(s0.mem, objectToBeReturned, wild),
                                  !.ub = s0.ub \/ OutOfBounds(s0.mem, objectToBeReturned, PtrSize),
                                  !.stats = AllocBookkeeping(s0.stats)]
                 mu == MarkUsed(s1, objectToBeReturned - st.cfg.PadBytes_ - HSize(st.cfg),
                                label, rec, labelOK, wild)
             IN  IF mu.err # "Ok" THEN [st |-> mu.st, err |-> mu.err, ret |-> NULL]
                 ELSE [st |-> IF st.DebugOn_
                              THEN set_mem_and_move(mu.st, objectToBeReturned,
                                                    ALLOCATED_PATTERN, st.cfg.ObjectSize_)
                              ELSE mu.st,
                       err |-> "Ok", ret |-> objectToBeReturned]

-----------------------------------------------------------------------------
(* Free *)

\* the switch on the header type in Free
MarkFree(st, header, wild) ==
    CASE st.cfg.HType = "hbExtended" ->
            LET s1 == set_mem_and_move(st, header, 0, st.cfg.additional_)
            IN  set_mem_and_move(s1, header + st.cfg.additional_ + 2, 0, 4 + 1)
      [] st.cfg.HType = "hbBasic" -> set_mem_and_move(st, header, 0, 4 + 1)
      [] st.cfg.HType = "hbExternal" ->
            set_mem_and_move(free_external_header(st, header, wild), header, 0, HSize(st.cfg))
      [] OTHER -> st

\* the bookkeeping of Free
\* FreeBookkeeping without the count of the deallocation (C3 depends on it)
FreeBookkeeping_NoDeallocations(stats) ==
    [stats EXCEPT !.FreeObjects_ = U32Inc(@),
                  !.ObjectsInUse_ = U32Dec(@)]

FreeBookkeeping(stats) ==
    [stats EXCEPT !.Deallocations_ = U32Inc(@),
                  !.FreeObjects_ = U32Inc(@),
                  !.ObjectsInUse_ = U32Dec(@)]

\* what Free does once the checks have passed (or were not run)
FreeBody(st, Object, wild) ==
    LET s1 == IF st.DebugOn_
              THEN set_mem_and_move(st, Object, FREED_PATTERN, st.cfg.ObjectSize_)
              ELSE st
        s2 == MarkFree(s1, Object - st.cfg.PadBytes_ - HSize(st.cfg), wild)
        s3 == put_on_freelist(s2, Object)
    IN  [s3 EXCEPT !.stats = FreeBookkeeping(s3.stats)]

\* Free that stamps the block before it runs the checks (C6 depends on the order)
FreeOp_StampFirst(st, Object, wild) ==
    LET e == IF st.DebugOn_ THEN FreeChecks(st, Object, wild) ELSE "Ok"
    IN  IF e # "Ok"
        THEN [st |-> set_mem_and_move(st, Object, FREED_PATTERN, st.cfg.ObjectSize_),
              err |-> e]
        ELSE [st |-> FreeBody(st, Object, wild), err |-> "Ok"]

\* Free (pool mode): [st, err]
FreeOp(st, Object, wild) ==
    LET e == IF st.DebugOn_ THEN FreeChecks(st, Object, wild) ELSE "Ok"
    IN  IF e # "Ok" THEN [st |-> st, err |-> e]
        ELSE [st |-> FreeBody(st, Object, wild), err |-> "Ok"]

-----------------------------------------------------------------------------
(* FreeEmptyPages *)

\* the block scan of FreePage: is currentBlock the start of a block of the page
RECURSIVE BlockOfPage(_, _, _, _)
BlockOfPage(st, pageBegin, pageIterator, currentBlock) ==
    IF pageIterator - pageBegin < PageSizeOf(st.cfg)
    THEN IF pageIterator = currentBlock THEN TRUE
         ELSE BlockOfPage(st, pageBegin, pageIterator + interPageSectionSizeOf(st.cfg),
                          currentBlock)
    ELSE FALSE

\* the free-list loop of FreePage: unlink every node that is a block of the page
RECURSIVE FreePageLoop(_, _, _, _, _, _)
FreePageLoop(st, pageBegin, prevBlock, currentBlock, seen, wild) ==
    IF currentBlock = NULL THEN st
    ELSE IF currentBlock \in seen THEN [st EXCEPT !.hang = TRUE]
    ELSE LET next == ReadPtr(st.mem, currentBlock, wild)
         IN  IF BlockOfPage(st, pageBegin, pageBegin + leftPageSectionSizeOf(st.cfg),
                            currentBlock)
             THEN LET s1 == IF st.cfg.HType = "hbExternal"
                            THEN free_external_header(st, currentBlock, wild)
                            ELSE st
                      s2 == IF currentBlock = s1.FreeList_
                            THEN [s1 EXCEPT !.FreeList_ = next] ELSE s1
                      s3 == IF prevBlock # NULL
                            THEN [s2 EXCEPT !.mem = WritePtr(s2.mem, prevBlock, next)]
                            ELSE s2
                  IN  FreePageLoop(s3, pageBegin, prevBlock, next,
                                   seen \cup {currentBlock}, wild)
             ELSE FreePageLoop(st, pageBegin, currentBlock, next,
                               seen \cup {currentBlock}, wild)

\* delete[] of a page: its bytes leave the live memory
HostDeletePage(st, pageHead) ==
    [st EXCEPT !.mem = [x \in {a \in DOMAIN st.mem :
                                 a < pageHead \/ a >= pageHead + PageSizeOf(st.cfg)} |-> st.mem[x]],
               !.ub = st.ub \/ OutOfBounds(st.mem, pageHead, PageSizeOf(st.cfg))]

\* FreePage
FreePage(st, pageHead, wild) ==
    LET s1 == FreePageLoop(st, pageHead, NULL, st.FreeList_, {}, wild)
    IN  IF s1.hang THEN s1 ELSE HostDeletePage(s1, pageHead)

\* the block scan of FreeEmptyPages: "no" as soon as a block is reported not to
\* be on the free list, "yes" when the scan reaches the end of the page
RECURSIVE ScanPage(_, _, _, _)
ScanPage(st, pageBegin, pageIterator, wild) ==
    IF pageIterator - pageBegin < PageSizeOf(st.cfg)
    THEN LET r == is_object_in_free_list(st, pageIterator, wild)
         IN  IF r = "yes"
             THEN ScanPage(st, pageBegin, pageIterator + interPageSectionSizeOf(st.cfg), wild)
             ELSE r
    ELSE "yes"

\* the page loop of FreeEmptyPages: [st, counter]
\* the page loop leaving after the first page it releases (C16 depends on one call
\* releasing all it can)
RECURSIVE FreeEmptyPagesLoop_OnePerCall(_, _, _, _, _, _, _)
FreeEmptyPagesLoop_OnePerCall(st, prevPage, currentPage, isPageEmpty, counter, seen, wild) ==
    IF currentPage = NULL THEN [st |-> st, counter |-> counter]
    ELSE IF currentPage \in seen THEN [st |-> [st EXCEPT !.hang = TRUE], counter |-> counter]
    ELSE LET r == ScanPage(st, currentPage, currentPage + leftPageSectionSizeOf(st.cfg), wild)
             next == ReadPtr(st.mem, currentPage, wild)
         IN  IF r = "hang" THEN [st |-> [st EXCEPT !.hang = TRUE], counter |-> counter]
             ELSE IF isPageEmpty /\ r = "yes"
             THEN LET s1 == IF currentPage = st.PageList_
                            THEN [st EXCEPT !.PageList_ = next] ELSE st
                      s2 == IF prevPage # NULL
                            THEN [s1 EXCEPT !.mem = WritePtr(s1.mem, prevPage, next)]
                            ELSE s1
                  IN  [st |-> FreePage(s2, currentPage, wild), counter |-> counter + 1]
             ELSE FreeEmptyPagesLoop_OnePerCall(st, currentPage, next, FALSE, counter,
                                                seen \cup {currentPage}, wild)

RECURSIVE FreeEmptyPagesLoop(_, _, _, _, _, _, _)
FreeEmptyPagesLoop(st, prevPage, currentPage, isPageEmpty, counter, seen, wild) ==
    IF currentPage = NULL THEN [st |-> st, counter |-> counter]
    ELSE IF currentPage \in seen THEN [st |-> [st EXCEPT !.hang = TRUE], counter |-> counter]
    ELSE LET r == ScanPage(st, currentPage, currentPage + leftPageSectionSizeOf(st.cfg), wild)
             empty == isPageEmpty /\ r = "yes"
             next == ReadPtr(st.mem, currentPage, wild)
         IN  IF r = "hang" THEN [st |-> [st EXCEPT !.hang = TRUE], counter |-> counter]
             ELSE IF empty
             THEN LET s1 == IF currentPage = st.PageList_
                            THEN [st EXCEPT !.PageList_ = next] ELSE st
                      s2 == IF prevPage # NULL
                            THEN [s1 EXCEPT !.mem = WritePtr(s1.mem, prevPage, next)]
                            ELSE s1
                      s3 == FreePage(s2, currentPage, wild)
                  IN  IF s3.hang THEN [st |-> s3, counter |-> counter]
                      ELSE FreeEmptyPagesLoop(s3, prevPage, next, TRUE, counter + 1,
                                              seen \cup {currentPage}, wild)
             ELSE FreeEmptyPagesLoop(st, currentPage, next, FALSE, counter,
                                     seen \cup {currentPage}, wild)

\* FreeEmptyPages: [st, counter]
FreeEmptyPagesOp(st, wild) ==
    FreeEmptyPagesLoop(st, NULL, st.PageList_, TRUE, 0, {}, wild)

-----------------------------------------------------------------------------
(* DumpMemoryInUse and ValidatePages.  The result is the sequence of blocks *)
(* the callback is called with; the calls return its length.               *)

\* the block loop of DumpMemoryInUse
RECURSIVE DumpBlocks(_, _, _, _)
DumpBlocks(st, pageBegin, pageIterator, wild) ==
    IF pageIterator - pageBegin < PageSizeOf(st.cfg)
    THEN LET r == is_object_in_free_list(st, pageIterator, wild)
             rest == DumpBlocks(st, pageBegin, pageIterator + interPageSectionSizeOf(st.cfg), wild)
         IN  IF r = "hang" THEN [calls |-> <<>>, hang |-> TRUE]
             ELSE [calls |-> (IF r = "no" THEN <<pageIterator>> ELSE <<>>) \o rest.calls,
                   hang |-> rest.hang]
    ELSE [calls |-> <<>>, hang |-> FALSE]

\* the page loop of DumpMemoryInUse
RECURSIVE DumpPages(_, _, _, _)
DumpPages(st, pageListIterator, seen, wild) ==
    IF pageListIterator = NULL THEN [calls |-> <<>>, hang |-> FALSE]
    ELSE IF pageListIterator \in seen \/ pageListIterator \notin DOMAIN st.mem
    THEN [calls |-> <<>>, hang |-> TRUE]
    ELSE LET page == DumpBlocks(st, pageListIterator,
                                pageListIterator + leftPageSectionSizeOf(st.cfg), wild)
             rest == DumpPages(st, ReadPtr(st.mem, pageListIterator, wild),
                               seen \cup {pageListIterator}, wild)
         IN  [calls |-> page.calls \o rest.calls, hang |-> page.hang \/ rest.hang]

\* DumpMemoryInUse(fn): [calls, hang]
DumpMemoryInUseOp(st, wild) == DumpPages(st, st.PageList_, {}, wild)

\* the block loop of ValidatePages
RECURSIVE ValidateBlocks(_, _, _, _)
ValidateBlocks(st, pageBegin, pageIterator, wild) ==
    IF pageIterator - pageBegin < PageSizeOf(st.cfg)
    THEN (IF check_corruption(st, pageIterator, wild) # "Ok" THEN <<pageIterator>> ELSE <<>>)
         \o ValidateBlocks(st, pageBegin, pageIterator + interPageSectionSizeOf(st.cfg), wild)
    ELSE <<>>

\* the page loop of ValidatePages
RECURSIVE ValidateLoop(_, _, _, _)
ValidateLoop(st, pageListIterator, seen, wild) ==
    IF pageListIterator = NULL THEN [calls |-> <<>>, hang |-> FALSE]
    ELSE IF pageListIterator \in seen \/ pageListIterator \notin DOMAIN st.mem
    THEN [calls |-> <<>>, hang |-> TRUE]
    ELSE LET rest == ValidateLoop(st, ReadPtr(st.mem, pageListIterator, wild),
                                  seen \cup {pageListIterator}, wild)
         IN  [calls |-> ValidateBlocks(st, pageListIterator,
                                       pageListIterator + leftPageSectionSizeOf(st.cfg), wild)
                        \o rest.calls,
              hang |-> rest.hang]

\* ValidatePages(fn): [calls, hang]
ValidatePagesOp(st, wild) ==
    IF ~st.DebugOn_ \/ st.cfg.PadBytes_ = 0
    THEN [calls |-> <<>>, hang |-> FALSE]
    ELSE ValidateLoop(st, st.PageList_, {}, wild)

-----------------------------------------------------------------------------
(* ~ObjectAllocator *)

\* the block loop of the destructor: free_external_header on the header of every
\* block of the page at blockBegin
RECURSIVE DestroyHeaders(_, _, _, _)
DestroyHeaders(st, blockBegin, blockIterator, wild) ==
    IF blockIterator - blockBegin < PageSizeOf(st.cfg)
    THEN DestroyHeaders(free_external_header(st, blockIterator - st.cfg.PadBytes_ - HSize(st.cfg),
                                             wild),
                        blockBegin, blockIterator + interPageSectionSizeOf(st.cfg), wild)
    ELSE st

\* the page loop of the destructor; it is followed until the process has deleted
\* what it does not own
RECURSIVE DestructorLoop(_, _)
DestructorLoop(st, wild) ==
    IF st.PageList_ = NULL \/ st.ub THEN st
    ELSE LET s1 == IF st.cfg.HType = "hbExternal"
                   THEN DestroyHeaders(st, st.PageList_,
                                       st.PageList_ + leftPageSectionSizeOf(st.cfg), wild)
                   ELSE st
             nextPage == ReadPtr(s1.mem, s1.PageList_, wild)
             s2 == HostDeletePage(s1, s1.PageList_)
         IN  DestructorLoop([s2 EXCEPT !.PageList_ = nextPage], wild)

-----------------------------------------------------------------------------
(* Configurations, the host and the caller *)

Config(objectSize, objectsPerPage, maxPages, padBytes, htype, additional, alignment) ==
    [ObjectSize_ |-> objectSize, ObjectsPerPage_ |-> objectsPerPage,
     MaxPages_ |-> maxPages, PadBytes_ |-> padBytes, HType |-> htype,
     additional_ |-> additional, Alignment_ |-> alignment]

\* the configurations explored
Configs ==
    { Config(8, 2, 1, 0, "hbNone", 0, 0),
      Config(12, 2, 2, 2, "hbBasic", 0, 0),
      Config(8, 2, 0, 1, "hbExtended", 1, 4),
      Config(12, 2, 2, 0, "hbExternal", 0, 0),
      Config(8, 1, 2, 1, "hbExternal", 0, 0) }

\* the configurations explored with a misbehaving caller
ConfigsDebug == {c \in Configs : c.HType # "hbExternal" \/ c.ObjectsPerPage_ = 1}

\* configurations a caller can pass to the constructor besides those above: an
\* object smaller than a pointer, no object per page, an alignment of 3
ConfigsUnchecked ==
    Configs \cup { Config(4, 2, 1, 0, "hbNone", 0, 0),
                   Config(8, 0, 1, 0, "hbNone", 0, 0),
                   Config(8, 2, 1, 1, "hbBasic", 0, 3) }

\* where the host can place a page: 16-byte aligned regions, each larger than a page
SlotBases == {80, 160}
FreeSlotBases(m) == {b \in SlotBases : b \notin DOMAIN m}
\* where the host can place a MemBlockInfo
RecAddrs == {320, 336, 352}
\* what a byte of memory the pool has not written can hold
HostBytes == {0, FREED_PATTERN}
Labels == {"NULL", "foo"}

\* the start of every block of the page at base
BlockStarts(base) ==
    {base + leftPageSectionSize + k * interPageSectionSize : k \in 0..(cfg.ObjectsPerPage_ - 1)}

\* the addresses a misbehaving caller passes to Free
MisuseAddrs ==
    UNION {{s - 1, s, s + 1} : s \in UNION {BlockStarts(b) : b \in SlotBases \cap DOMAIN mem}}
    \cup (SlotBases \cap DOMAIN mem)
    \cup UNION {BlockStarts(b) : b \in FreeSlotBases(mem)}

\* the bytes a caller writes: the byte after the link word of a held block, and
\* (a caller that overruns) the padding around it
ScribbleAddrs ==
    UNION {((p - cfg.PadBytes_)..(p - 1))
           \cup ((p + cfg.ObjectSize_)..(p + cfg.ObjectSize_ + cfg.PadBytes_ - 1))
           \cup (IF cfg.ObjectSize_ > PtrSize THEN {p + PtrSize} ELSE {}) : p \in held}

-----------------------------------------------------------------------------
(* The state machine *)

Cur ==
    [cfg |-> cfg, DebugOn_ |-> DebugOn_, mem |-> mem, PageList_ |-> PageList_, FreeList_ |-> FreeList_, stats |-> myStats,
     heap |-> heap, ub |-> ub, hang |-> FALSE]

Commit(st) ==
    /\ mem' = st.mem
    /\ PageList_' = st.PageList_
    /\ FreeList_' = st.FreeList_
    /\ myStats' = st.stats
    /\ heap' = st.heap
    /\ ub' = st.ub
    /\ maxSeen' = IF U32Gt(st.stats.ObjectsInUse_, maxSeen)
                  THEN st.stats.ObjectsInUse_ ELSE maxSeen

Outcome(st, err) == IF st.hang THEN "Hang" ELSE err

\* the object before the constructor body runs
Blank(c, debug) ==
    [cfg |-> c, DebugOn_ |-> debug, mem |-> <<>>, PageList_ |-> NULL, FreeList_ |-> NULL,
     stats |-> [PagesInUse_ |-> 0, ObjectsInUse_ |-> 0, FreeObjects_ |-> 0,
                MostObjects_ |-> 0, Allocations_ |-> 0, Deallocations_ |-> 0],
     heap |-> <<>>, ub |-> FALSE, hang |-> FALSE]

\* the state after a constructor call that returned, for the given configurations
InitOf(configs, debugStates) ==
    /\ cfg \in configs
    /\ DebugOn_ \in debugStates
    /\ \E base \in SlotBases, fill \in HostBytes :
         \E r \in {allocate_new_page(Blank(cfg, DebugOn_), base, fill)} :
             /\ mem = r.st.mem
             /\ PageList_ = r.st.PageList_
             /\ FreeList_ = r.st.FreeList_
             /\ myStats = r.st.stats
             /\ heap = r.st.heap
             /\ ub = r.st.ub
    /\ held = {}
    /\ maxSeen = 0
    /\ onlyAllocs = TRUE
    /\ scribbles = 0
    /\ last = [op |-> "new", arg |-> NULL, result |-> "Ok", ret |-> NULL]
    /\ prev = [op |-> "other", arg |-> NULL]
    /\ reported = <<>>

Init == InitOf(Configs, BOOLEAN)

\* a call can be made: no earlier call is stuck in a loop, and the process has not
\* written through a wild pointer or deleted what it does not own
Running == last.result # "Hang" /\ ~ub /\ last.op # "~ObjectAllocator"

\* the host's answers that Allocate can depend on in the current state
PageChoices == IF FreeList_ = NULL THEN FreeSlotBases(mem) \cup {0} ELSE {0}
FillChoices == IF FreeList_ = NULL /\ ~DebugOn_ THEN HostBytes ELSE {0}
FreeRecs == RecAddrs \ DOMAIN heap
RecChoices ==
    IF cfg.HType = "hbExternal"
    THEN {r \in FreeRecs : \A q \in FreeRecs : r <= q} \cup {0}
    ELSE {0}
LabelChoices == IF cfg.HType = "hbExternal" THEN Labels ELSE {"NULL"}
\* what a read outside the live pages returns in a call on Object
WildChoices(Object) ==
    IF OutOfBounds(mem, Object - cfg.PadBytes_ - HSize(cfg),
                   HSize(cfg) + 2 * cfg.PadBytes_ + cfg.ObjectSize_ + PtrSize)
    THEN HostBytes ELSE {0}

\* what is remembered of a call when the next call is made
Before(call) ==
    IF call.op = "Free" /\ call.result = "Ok" THEN [op |-> "Free", arg |-> call.arg]
    ELSE IF call.op = "FreeEmptyPages" /\ call.result = "Ok"
    THEN [op |-> "FreeEmptyPages", arg |-> NULL]
    ELSE [op |-> "other", arg |-> NULL]

\* Allocate(label)
Allocate ==
    /\ Running
    /\ myStats.Allocations_ < MaxAllocs
    /\ \E call \in {c \in LabelChoices \X BOOLEAN : c[2] \/ c[1] # "NULL"},
          base \in PageChoices, fill \in FillChoices, rec \in RecChoices,
          wild \in (IF FreeList_ = NULL THEN {0} ELSE WildChoices(FreeList_)) :
         \E r \in {AllocateOp(Cur, call[1], base, fill, rec, call[2], wild)} :
             /\ Commit(r.st)
             /\ held' = IF r.err = "Ok" THEN held \cup {r.ret} ELSE held
             /\ last' = [op |-> "Allocate", arg |-> NULL, result |-> Outcome(r.st, r.err),
                         ret |-> r.ret]
    /\ prev' = Before(last)
    /\ reported' = <<>>
    /\ UNCHANGED <<cfg, DebugOn_, onlyAllocs, scribbles>>

\* Free(Object), as Free does it for any Object
FreeCall(Object) ==
    /\ Running
    /\ myStats.Deallocations_ < MaxFrees
    /\ \E wild \in WildChoices(Object) :
         \E r \in {FreeOp(Cur, Object, wild)} :
             /\ Commit(r.st)
             /\ held' = IF r.err = "Ok" THEN held \ {Object} ELSE held
             /\ last' = [op |-> "Free", arg |-> Object, result |-> Outcome(r.st, r.err),
                         ret |-> NULL]
    /\ onlyAllocs' = FALSE
    /\ prev' = Before(last)
    /\ reported' = <<>>
    /\ UNCHANGED <<cfg, DebugOn_, scribbles>>

\* Free of a pointer the caller holds
Free == \E Object \in held : FreeCall(Object)

\* Free of an address the caller does not hold, the debug checks being on
FreeAny == DebugOn_ /\ \E Object \in MisuseAddrs \ held : FreeCall(Object)

\* Free of a pointer the caller has passed to Free before and does not hold
FreeAgain ==
    \E Object \in ((IF last.op = "Free" THEN {last.arg} ELSE {})
                    \cup (IF prev.op = "Free" THEN {prev.arg} ELSE {})) \ held :
        FreeCall(Object)

\* FreeEmptyPages()
FreeEmptyPages ==
    /\ Running
    /\ \E wild \in (IF ub THEN HostBytes ELSE {0}) :
         \E r \in {FreeEmptyPagesOp(Cur, wild)} :
             /\ Commit(r.st)
             /\ last' = [op |-> "FreeEmptyPages", arg |-> NULL,
                         result |-> Outcome(r.st, "Ok"), ret |-> r.counter]
    /\ onlyAllocs' = FALSE
    /\ prev' = Before(last)
    /\ reported' = <<>>
    /\ UNCHANGED <<cfg, DebugOn_, held, scribbles>>

\* SetDebugState(State)
SetDebugState ==
    /\ Running
    /\ \E State \in BOOLEAN :
         /\ DebugOn_' = State
         /\ last' = [op |-> "SetDebugState", arg |-> NULL, result |-> "Ok", ret |-> NULL]
    /\ onlyAllocs' = FALSE
    /\ prev' = Before(last)
    /\ reported' = <<>>
    /\ UNCHANGED <<cfg, PageList_, FreeList_, mem, myStats, heap, ub, held, maxSeen, scribbles>>

\* DumpMemoryInUse(fn)
DumpMemoryInUse ==
    /\ Running
    /\ \E r \in {DumpMemoryInUseOp(Cur, 0)} :
         /\ reported' = r.calls
         /\ last' = [op |-> "DumpMemoryInUse", arg |-> NULL,
                     result |-> IF r.hang THEN "Hang" ELSE "Ok", ret |-> Len(r.calls)]
    /\ prev' = Before(last)
    /\ onlyAllocs' = FALSE
    /\ UNCHANGED <<cfg, DebugOn_, PageList_, FreeList_, mem, myStats, heap, ub, held, maxSeen,
                   scribbles>>

\* ValidatePages(fn)
ValidatePages ==
    /\ Running
    /\ \E r \in {ValidatePagesOp(Cur, 0)} :
         /\ reported' = r.calls
         /\ last' = [op |-> "ValidatePages", arg |-> NULL,
                     result |-> IF r.hang THEN "Hang" ELSE "Ok", ret |-> Len(r.calls)]
    /\ prev' = Before(last)
    /\ onlyAllocs' = FALSE
    /\ UNCHANGED <<cfg, DebugOn_, PageList_, FreeList_, mem, myStats, heap, ub, held, maxSeen,
                   scribbles>>

\* the caller writes one byte
Scribble ==
    /\ Running
    /\ scribbles < MaxScribbles
    /\ \E a \in ScribbleAddrs \cap DOMAIN mem, v \in HostBytes :
         /\ mem[a] # v
         /\ mem' = [mem EXCEPT ![a] = v]
    /\ scribbles' = scribbles + 1
    /\ UNCHANGED <<cfg, DebugOn_, PageList_, FreeList_, myStats, heap, ub, held, maxSeen,
                   onlyAllocs, last, prev, reported>>

\* ~ObjectAllocator(): the pool is dropped
Destructor ==
    /\ Running
    /\ \E r \in {DestructorLoop(Cur, 0)} :
         /\ Commit(r)
         /\ last' = [op |-> "~ObjectAllocator", arg |-> NULL, result |-> "Ok", ret |-> NULL]
    /\ onlyAllocs' = FALSE
    /\ prev' = Before(last)
    /\ reported' = <<>>
    /\ UNCHANGED <<cfg, DebugOn_, held, scribbles>>

\* a caller that frees what it holds
Next == Allocate \/ Free \/ FreeEmptyPages

Spec == Init /\ [][Next]_vars

\* a pool constructed with the debug checks on
InitDebug == InitOf(ConfigsDebug, {TRUE})

\* a caller that also passes addresses it does not hold to Free when the debug
\* checks are on
InitBadFree == InitOf(ConfigsDebug, BOOLEAN)

NextBadFree == Allocate \/ Free \/ FreeAny

SpecBadFree == InitBadFree /\ [][NextBadFree]_vars

\* a caller that writes to the bytes in and around the blocks it holds
NextScribble == Allocate \/ Free \/ Scribble

SpecScribble == InitDebug /\ [][NextScribble]_vars

\* a caller that asks which blocks are in use
NextDump == Allocate \/ Free \/ DumpMemoryInUse

SpecDump == Init /\ [][NextDump]_vars

\* a caller that writes around its blocks and asks which blocks are corrupted
NextValidate == Allocate \/ Free \/ Scribble \/ ValidatePages

SpecValidate == InitBadFree /\ [][NextValidate]_vars

\* a caller that switches the debug checks on and off
NextSetDebug == Allocate \/ Free \/ SetDebugState

SpecSetDebug == Init /\ [][NextSetDebug]_vars

\* any history of Allocate, Free of held pointers, FreeEmptyPages and SetDebugState
NextAnyHistory == Allocate \/ Free \/ FreeEmptyPages \/ SetDebugState

SpecAnyHistory == Init /\ [][NextAnyHistory]_vars

\* a caller that frees pointers Allocate returned, some of them more than once, the
\* debug checks being on from construction
NextRefree == Allocate \/ Free \/ FreeAgain \/ FreeEmptyPages

SpecRefree == InitOf(Configs, {TRUE}) /\ [][NextRefree]_vars

\* a caller that drops the pool at any moment
NextDrop == Allocate \/ Free \/ Destructor

SpecDrop == Init /\ [][NextDrop]_vars

\* a pool constructed with any configuration the constructor accepts
InitUnchecked == InitOf(ConfigsUnchecked, BOOLEAN)

NextUnchecked == Allocate \/ Free

SpecUnchecked == InitUnchecked /\ [][NextUnchecked]_vars

-----------------------------------------------------------------------------
(* What the claims speak of *)

\* the pages that are live in host memory
LivePages == SlotBases \cap DOMAIN mem
InLivePage(q) == \E b \in LivePages : b <= q /\ q < b + PageSize_
AllBlockStarts == UNION {BlockStarts(b) : b \in LivePages}

\* the nodes of the free list
RECURSIVE FreeListNodes(_, _, _)
FreeListNodes(m, cur, seen) ==
    IF cur = NULL \/ cur \in seen THEN seen
    ELSE FreeListNodes(m, ReadPtr(m, cur, 0), seen \cup {cur})
OnFreeList == FreeListNodes(mem, FreeList_, {})

\* some padding byte of the block at p is not PAD_PATTERN
PadCorrupted(p) ==
    \E a \in ((p - cfg.PadBytes_)..(p - 1))
             \cup ((p + cfg.ObjectSize_)..(p + cfg.ObjectSize_ + cfg.PadBytes_ - 1)) :
        RdByte(mem, a, 0) # PAD_PATTERN

ErrorKinds ==
    {"E_NO_MEMORY", "E_NO_PAGES", "E_MULTIPLE_FREE", "E_CORRUPTED_BLOCK",
     "E_BAD_BOUNDARY", "E_BAD_ADDRESS"}

-----------------------------------------------------------------------------
(* Claims *)

\* C1: every pointer Allocate returns is non-null and differs from every pointer
\* that was returned earlier and has not been freed since.
C1_AllocateReturnsDistinctPointer ==
    [][(last'.op = "Allocate" /\ last'.result = "Ok")
        => (last'.ret # NULL /\ last'.ret \notin held)]_vars

\* C2 (I1): after construction and after every call, successful or aborted,
\* FreeObjects_ + ObjectsInUse_ = PagesInUse_ * ObjectsPerPage_.
C2_StatsPartition ==
    myStats.FreeObjects_ + myStats.ObjectsInUse_
        = myStats.PagesInUse_ * cfg.ObjectsPerPage_

C2_Witness ==
    /\ last.op = "Free" /\ last.result = "Ok"
    /\ myStats.PagesInUse_ = 2
    /\ myStats.ObjectsInUse_ >= 1

\* C3: after every call, successful or aborted,
\* Allocations_ - Deallocations_ = ObjectsInUse_.
C3_StatsLaw ==
    myStats.Allocations_ - myStats.Deallocations_ = myStats.ObjectsInUse_

C3_Witness ==
    /\ last.result \in ErrorKinds
    /\ myStats.Deallocations_ >= 1
    /\ myStats.ObjectsInUse_ >= 1

\* C4 (I3): MostObjects_ is the largest value ObjectsInUse_ has had after any call
\* since construction, and so is never below ObjectsInUse_.
C4_HighWaterMark ==
    /\ myStats.MostObjects_ = maxSeen
    /\ ~U32Gt(myStats.ObjectsInUse_, myStats.MostObjects_)

C4_Witness ==
    /\ myStats.MostObjects_ >= 2
    /\ myStats.ObjectsInUse_ < myStats.MostObjects_
    /\ last.op = "Allocate" /\ last.result = "Ok"

\* the number of objects handed out before the last call, in a run of Allocate calls
HandedOutBefore == IF last.result = "Ok" THEN Cardinality(held) - 1 ELSE Cardinality(held)

\* C5: with MaxPages_ = N > 0, in a run of Allocate calls on a new pool in which the
\* host refuses nothing, a call made when fewer than N * ObjectsPerPage_ objects are
\* handed out succeeds, the pool then having just the pages those objects need, and
\* a call made when N * ObjectsPerPage_ are handed out raises E_NO_PAGES.
C5_NoPagesExactlyWhenFull ==
    (/\ onlyAllocs
     /\ last.op = "Allocate"
     /\ cfg.MaxPages_ > 0
     /\ Cardinality(held) = myStats.Allocations_
     /\ last.result \notin {"E_NO_MEMORY", "bad_alloc"})
    => /\ HandedOutBefore <= cfg.MaxPages_ * cfg.ObjectsPerPage_
       /\ (HandedOutBefore < cfg.MaxPages_ * cfg.ObjectsPerPage_ => last.result = "Ok")
       /\ (HandedOutBefore = cfg.MaxPages_ * cfg.ObjectsPerPage_
             => last.result = "E_NO_PAGES")
       /\ (last.result = "Ok"
             => myStats.PagesInUse_
                  = (Cardinality(held) + cfg.ObjectsPerPage_ - 1) \div cfg.ObjectsPerPage_)

C5_Witness ==
    /\ onlyAllocs
    /\ last.op = "Allocate" /\ last.result = "E_NO_PAGES"
    /\ cfg.MaxPages_ = 2
    /\ myStats.PagesInUse_ = 2
    /\ Cardinality(held) = 2 * cfg.ObjectsPerPage_

\* C6: a call that raises one of the six errors leaves the counters, the free list,
\* the page list, every byte of every page and every record as they were.
C6_ErrorLeavesStateUnchanged ==
    [][last'.result \in ErrorKinds
        => UNCHANGED <<mem, PageList_, FreeList_, myStats, heap, DebugOn_, held>>]_vars

C6_Witness ==
    /\ last.op = "Free"
    /\ last.result = "E_MULTIPLE_FREE"
    /\ last.arg \in OnFreeList
    /\ myStats.Deallocations_ >= 1
    /\ myStats.ObjectsInUse_ >= 1

\* C7: with DebugOn_, Free of a block that is on the free list raises
\* E_MULTIPLE_FREE, however the block got there.
C7_FreeOfFreeBlockIsMultipleFree ==
    [][(last'.op = "Free" /\ DebugOn_ /\ last'.arg \in OnFreeList)
        => last'.result = "E_MULTIPLE_FREE"]_vars

\* C8: with DebugOn_ and PadBytes_ > 0, Free of a block the caller holds raises
\* E_CORRUPTED_BLOCK when one of the PadBytes_ bytes before it or of the PadBytes_
\* bytes after it is not PAD_PATTERN.
C8_FreeOfCorruptedBlockIsCorruptedBlock ==
    [][(last'.op = "Free" /\ last' # last /\ DebugOn_ /\ cfg.PadBytes_ > 0
          /\ last'.arg \in held /\ PadCorrupted(last'.arg))
        => last'.result = "E_CORRUPTED_BLOCK"]_vars

\* C9: with DebugOn_, Free of an address inside a live page that is not the start
\* of a block raises E_BAD_BOUNDARY.
C9_FreeInsidePageIsBadBoundary ==
    [][(last'.op = "Free" /\ DebugOn_ /\ InLivePage(last'.arg)
          /\ last'.arg \notin AllBlockStarts)
        => last'.result = "E_BAD_BOUNDARY"]_vars

\* C10: with DebugOn_, Free of an address inside no live page raises E_BAD_ADDRESS.
C10_FreeOutsidePagesIsBadAddress ==
    [][(last'.op = "Free" /\ DebugOn_ /\ ~InLivePage(last'.arg))
        => last'.result = "E_BAD_ADDRESS"]_vars

\* C11: with Alignment_ > 1 and page addresses that are multiples of Alignment_,
\* every pointer Allocate returns is a multiple of Alignment_.
C11_ReturnedPointerIsAligned ==
    [][(last'.op = "Allocate" /\ last'.result = "Ok" /\ cfg.Alignment_ > 1
          /\ \A b \in SlotBases : b % cfg.Alignment_ = 0)
        => last'.ret % cfg.Alignment_ = 0]_vars

\* C12: an Allocate that returns a pointer, called right after a Free(p) that
\* returned, returns p.
C12_AllocateAfterFreeReturnsFreed ==
    (last.op = "Allocate" /\ last.result = "Ok" /\ prev.op = "Free")
    => last.ret = prev.arg

C12_Witness ==
    /\ last.op = "Allocate" /\ last.result = "Ok"
    /\ prev.op = "Free"
    /\ last.ret = prev.arg
    /\ FreeList_ # NULL
    /\ Cardinality(held) = 2

\* the live pages all of whose blocks are on the free list
EmptyPages == {b \in LivePages : BlockStarts(b) \subseteq OnFreeList}

\* C13: FreeEmptyPages releases every page all of whose blocks are on the free
\* list, wherever the page stands in the page list, and returns the number of
\* those pages.
C13_FreeEmptyPagesReleasesEveryEmptyPage ==
    [][last'.op = "FreeEmptyPages"
        => /\ EmptyPages \cap LivePages' = {}
           /\ last'.ret = Cardinality(EmptyPages)]_vars

\* C14: FreeEmptyPages releases only pages all of whose blocks are on the free
\* list, so never a page with a block the caller holds.
C14_FreeEmptyPagesReleasesOnlyEmptyPages ==
    [][last'.op = "FreeEmptyPages"
        => /\ (LivePages \ LivePages') \subseteq EmptyPages
           /\ \A b \in LivePages \ LivePages' : BlockStarts(b) \cap held = {}]_vars

\* C15: a FreeEmptyPages call that returns k lowers PagesInUse_ by k and
\* FreeObjects_ by k * ObjectsPerPage_; afterwards PagesInUse_ is the number of
\* pages on the page list and FreeObjects_ the number of nodes of the free list.
C15_FreeEmptyPagesUpdatesStats ==
    [][last'.op = "FreeEmptyPages"
        => /\ myStats'.PagesInUse_ = myStats.PagesInUse_ - last'.ret
           /\ myStats'.FreeObjects_
                = myStats.FreeObjects_ - last'.ret * cfg.ObjectsPerPage_
           /\ myStats'.PagesInUse_ = Cardinality(LivePages')
           /\ myStats'.FreeObjects_ = Cardinality(OnFreeList')]_vars

C17_AllocateAfterReleaseAddsPage ==
    [][(/\ last.op = "FreeEmptyPages" /\ last.ret > 0
        /\ last'.op = "Allocate"
        /\ FreeList_ = NULL
        /\ (cfg.MaxPages_ = 0 \/ Cardinality(LivePages) < cfg.MaxPages_))
        => /\ last'.result # "E_NO_PAGES"
           /\ (last'.result = "Ok"
                 => Cardinality(LivePages') = Cardinality(LivePages) + 1)]_vars

\* the set of blocks the callback was called with
Reported == {reported[i] : i \in DOMAIN reported}

\* C18: DumpMemoryInUse calls the callback once for each block the caller holds and
\* for no other block, and returns the number of those blocks, which is
\* ObjectsInUse_.
C18_DumpReportsHeldBlocks ==
    last.op = "DumpMemoryInUse"
    => /\ last.result = "Ok"
       /\ Reported = held
       /\ Len(reported) = Cardinality(held)
       /\ last.ret = Cardinality(held)
       /\ last.ret = myStats.ObjectsInUse_

\* the blocks of the live pages with a padding byte that is not PAD_PATTERN
CorruptedBlocks == {b \in AllBlockStarts : PadCorrupted(b)}

\* C19: ValidatePages returns 0 and calls nothing when DebugOn_ is off or PadBytes_
\* is 0; otherwise it calls the callback once for each block, free or in use, of
\* which a padding byte before or after the object is not PAD_PATTERN, and returns
\* the number of those blocks.
C19_ValidateReportsCorruptedBlocks ==
    [][(last'.op = "ValidatePages" /\ mem' = mem)
        => IF ~DebugOn_ \/ cfg.PadBytes_ = 0
           THEN last'.ret = 0 /\ reported' = <<>>
           ELSE /\ {reported'[i] : i \in DOMAIN reported'} = CorruptedBlocks
                /\ Len(reported') = Cardinality(CorruptedBlocks)
                /\ last'.ret = Cardinality(CorruptedBlocks)]_vars

\* C20 (I4): with hbBasic or hbExtended headers, the in-use flag byte of the header
\* of every block of every page is 0 exactly when the block is on the free list.
C20_FlagMirrorsFreeList ==
    cfg.HType \in {"hbBasic", "hbExtended"}
    => \A b \in AllBlockStarts :
           (RdByte(mem, b - cfg.PadBytes_ - 1, 0) = 0) <=> (b \in OnFreeList)

\* C21 (I2): after construction and after every call, every node of the free list
\* is the start of a block of a page on the page list, and no node is a block the
\* caller holds.
C21_FreeListNodesAreFreeBlocks ==
    /\ OnFreeList \subseteq AllBlockStarts
    /\ OnFreeList \cap held = {}

\* C22 (I5): in every state in which the debug checks are on and PadBytes_ > 0, the
\* caller having written only inside the objects it holds, every padding byte of
\* every block of every page is PAD_PATTERN.
C22_PadBytesArePad ==
    (DebugOn_ /\ cfg.PadBytes_ > 0) => \A p \in AllBlockStarts : ~PadCorrupted(p)

\* the MemBlockInfo address stored in the header of the block at p
HeaderSlot(p) == ReadPtr(mem, p - cfg.PadBytes_ - HSize(cfg), WildPtr)

\* C23: with hbExternal headers, after every call the live MemBlockInfo records are
\* exactly those the header slots of the held blocks point to, one record per held
\* block, in use and carrying the allocation number; the slot of a block on the
\* free list points to no live record.
C23_RecordsAreThoseOfHeldBlocks ==
    cfg.HType = "hbExternal" =>
        /\ \A p \in held : HeaderSlot(p) \in DOMAIN heap /\ heap[HeaderSlot(p)].in_use
        /\ \A r \in DOMAIN heap : \E p \in held : HeaderSlot(p) = r
        /\ \A p, q \in held : HeaderSlot(p) = HeaderSlot(q) => p = q
        /\ \A p \in OnFreeList \cap AllBlockStarts : HeaderSlot(p) \notin DOMAIN heap

\* C24: once the pool is dropped, every page of the page list has been released,
\* no MemBlockInfo is live any more, and the destructor has deleted nothing but
\* null pointers and live records (each page and each record once).
C24_DropReleasesEverything ==
    last.op = "~ObjectAllocator" =>
        /\ PageList_ = NULL
        /\ LivePages = {}
        /\ DOMAIN heap = {}
        /\ ~ub

\* C25: when Alignment_ is neither 0 nor a power of two, or ObjectsPerPage_ < 1, or
\* ObjectSize_ is smaller than a pointer, the constructor reports an error and
\* creates no pool: no page is allocated.
C25_ConstructorRejectsInvalidConfig ==
    LET invalid == \/ cfg.Alignment_ \notin {0, 1, 2, 4, 8, 16}
                   \/ cfg.ObjectsPerPage_ < 1
                   \/ cfg.ObjectSize_ < PtrSize
    IN  (last.op = "new" /\ invalid) =>
            /\ last.result \in ErrorKinds
            /\ PageList_ = NULL
            /\ LivePages = {}

\* C26: with DebugOn_, the error Free raises is that of the first check that fails
\* among check_double_free, check_corruption and check_boundary, in this order, each
\* taken on the state before the call; when a check fails no byte is stamped, and
\* when all three pass the bytes of the object behind the link word are
\* FREED_PATTERN.
C26_ChecksRunInOrderBeforeStamp ==
    [][(last'.op = "Free" /\ DebugOn_) =>
         \E wild \in WildChoices(last'.arg) :
            LET e1 == check_double_free(Cur, last'.arg, wild)
                e2 == check_corruption(Cur, last'.arg, wild)
                e3 == check_boundary(Cur, last'.arg, wild)
            IN  /\ e1 # "Ok" => last'.result = e1
                /\ (e1 = "Ok" /\ e2 # "Ok") => last'.result = e2
                /\ (e1 = "Ok" /\ e2 = "Ok") => last'.result = e3
                /\ last'.result # "Ok" => mem' = mem
                /\ last'.result = "Ok" =>
                      \A a \in (last'.arg + PtrSize)..(last'.arg + cfg.ObjectSize_ - 1) :
                          RdByte(mem', a, 0) = FREED_PATTERN]_vars

\* a Free that raised E_MULTIPLE_FREE for a pointer that fails the two later checks
\* as well
C26_Witness ==
    /\ DebugOn_
    /\ last.op = "Free"
    /\ last.result = "E_MULTIPLE_FREE"
    /\ check_corruption(Cur, last.arg, 0) = "E_CORRUPTED_BLOCK"
    /\ check_boundary(Cur, last.arg, 0) = "E_BAD_BOUNDARY"
    /\ myStats.Deallocations_ >= 1

\* C27: with DebugOn_ and ObjectSize_ equal to the size of a pointer, for every
\* header kind: the Free of a pointer Allocate has just returned succeeds, and a
\* second Free of the pointer right after the first raises E_MULTIPLE_FREE, the
\* block being a node of the free list that the walk of is_object_in_free_list finds.
C27_PointerSizedDoubleFree ==
    [][(DebugOn_ /\ cfg.ObjectSize_ = PtrSize /\ last'.op = "Free") =>
         /\ (last.op = "Allocate" /\ last.result = "Ok" /\ last'.arg = last.ret)
                => last'.result = "Ok"
         /\ (last.op = "Free" /\ last.result = "Ok" /\ last'.arg = last.arg)
                => (last'.result = "E_MULTIPLE_FREE" /\ last'.arg \in OnFreeList)]_vars

\* the allocation number in the hbBasic or hbExtended header of the block at p in
\* memory m (-1: a value of more than 16 bits)
AllocNumber(m, p) ==
    LET at == p - cfg.PadBytes_ - (BASIC_HEADER_SIZE)
    IN  IF RdByte(m, at + 2, 0) = 0 /\ RdByte(m, at + 3, 0) = 0
        THEN ReadU16(m, at, 0) ELSE -1

\* C28: with hbBasic or hbExtended headers, an Allocate that returns p raises
\* Allocations_ by one and stores the new value in the header of p, a value above
\* the numbers of all blocks already held; the numbers of the held blocks are
\* pairwise distinct and lie in 1..Allocations_; Free of p sets the number to 0.
C28_AllocationNumberIsNthAllocate ==
    [][cfg.HType \in {"hbBasic", "hbExtended"} =>
         /\ (last'.op = "Allocate" /\ last'.result = "Ok") =>
                /\ myStats'.Allocations_ = myStats.Allocations_ + 1
                /\ AllocNumber(mem', last'.ret) = myStats'.Allocations_
                /\ \A q \in held : AllocNumber(mem', q) < AllocNumber(mem', last'.ret)
         /\ (last'.op = "Free" /\ last'.result = "Ok") => AllocNumber(mem', last'.arg) = 0
         /\ \A p \in held' : AllocNumber(mem', p) \in 1..myStats'.Allocations_
         /\ \A p, q \in held' : p # q => AllocNumber(mem', p) # AllocNumber(mem', q)]_vars

\* two blocks are held, the later one allocated after a Free, and one block that was
\* freed is on the free list
C28_Witness ==
    /\ cfg.HType \in {"hbBasic", "hbExtended"}
    /\ last.op = "Allocate" /\ last.result = "Ok"
    /\ prev.op = "Free"
    /\ Cardinality(held) = 2
    /\ AllocNumber(mem, last.ret) = 3
    /\ \E q \in held : AllocNumber(mem, q) \in {1, 2}

\* the use counter in the hbExtended header of the block at p in memory m
UseCounter(m, p) == ReadU16(m, p - cfg.PadBytes_ - BASIC_HEADER_SIZE - 2, 0)

\* C29: with hbExtended headers, the use counter of every block is 0 when its page
\* is created (by the constructor or by Allocate), an Allocate that returns the
\* block adds one to it modulo 2^16, and no other call changes it, with the debug
\* checks on or off.
C29_UseCounterCountsAllocations ==
    [][cfg.HType = "hbExtended" =>
         /\ last.op = "new" => \A p \in AllBlockStarts : UseCounter(mem, p) = 0
         /\ \A p \in AllBlockStarts' :
              LET returned == last'.op = "Allocate" /\ last'.result = "Ok" /\ last'.ret = p
                  before == IF p \in AllBlockStarts THEN UseCounter(mem, p) ELSE 0
              IN  UseCounter(mem', p) = IF returned THEN (before + 1) % 65536 ELSE before]_vars

\* every live page has PageSize_ bytes, PageSize_ being the layout formula, and
\* ObjectsPerPage_ blocks whose header, padding and object lie behind the page's
\* Next pointer, inside the page, one block after the other
LayoutOK ==
    /\ PageSize_ = PtrSize + LeftAlignSize_(cfg)
                   + cfg.ObjectsPerPage_ * (HSize(cfg) + 2 * cfg.PadBytes_ + cfg.ObjectSize_)
                   + (cfg.ObjectsPerPage_ - 1) * InterAlignSize_(cfg)
    /\ ~ub
    /\ \A b \in LivePages :
         /\ \A a \in b..(b + PageSize_ - 1) : a \in DOMAIN mem
         /\ Cardinality(BlockStarts(b)) = cfg.ObjectsPerPage_
         /\ \A s \in BlockStarts(b) :
              /\ s - cfg.PadBytes_ - HSize(cfg) >= b + PtrSize
              /\ s + cfg.ObjectSize_ + cfg.PadBytes_ <= b + PageSize_
         /\ \A s, t \in BlockStarts(b) :
              s < t => s + cfg.ObjectSize_ + cfg.PadBytes_ <= t - cfg.PadBytes_ - HSize(cfg)

\* C30: for every configuration with ObjectsPerPage_ >= 1, with the debug checks on
\* or off: the page the constructor creates and every page Allocate creates has the
\* layout above, and its initialization pushes exactly the ObjectsPerPage_ blocks at
\* leftPageSectionSize + k * interPageSectionSize on the free list (Allocate then
\* takes one of them).
C30_PageLayout ==
    /\ (cfg.ObjectsPerPage_ >= 1 /\ last.op = "new") =>
            (LayoutOK /\ OnFreeList = AllBlockStarts
                /\ Cardinality(OnFreeList) = cfg.ObjectsPerPage_)
    /\ [][cfg.ObjectsPerPage_ >= 1 =>
            /\ LayoutOK'
            /\ \A b \in LivePages' \ LivePages :
                 \E p \in BlockStarts(b) :
                     /\ OnFreeList' = BlockStarts(b) \ {p}
                     /\ last'.result = "Ok" => last'.ret = p]_vars

\* C31: constructing a pool creates no page (PagesInUse_ = 0, FreeObjects_ = 0, an
\* empty free list), and a page is created only by an Allocate that finds the free
\* list empty while PagesInUse_ < MaxPages_ or MaxPages_ = 0.
C31_PagesOnlyOnDemand ==
    /\ last.op = "new" =>
            /\ LivePages = {}
            /\ PageList_ = NULL
            /\ FreeList_ = NULL
            /\ myStats.PagesInUse_ = 0
            /\ myStats.FreeObjects_ = 0
    /\ [][LivePages' \ LivePages # {} =>
            /\ last'.op = "Allocate"
            /\ FreeList_ = NULL
            /\ (cfg.MaxPages_ = 0 \/ myStats.PagesInUse_ < cfg.MaxPages_)]_vars

\* C32: with DebugOn_, for every address q strictly inside a live page, the left
\* section before the first block included, check_boundary accepts q exactly when q
\* is the start of one of the page's blocks, and raises E_BAD_BOUNDARY otherwise.
C32_BoundaryCheckIsExact ==
    DebugOn_ =>
        \A b \in LivePages : \A q \in (b + 1)..(b + PageSize_ - 1) :
            check_boundary(Cur, q, 0) = IF q \in BlockStarts(b) THEN "Ok" ELSE "E_BAD_BOUNDARY"

\* C33: with hbExternal headers, FreeEmptyPages hands to free_external_header only
\* null pointers and live MemBlockInfo records: a call made while the process is
\* intact deletes nothing else, whatever the free list links hold.
C33_FreeEmptyPagesDestroysOnlyRecords ==
    [][(cfg.HType = "hbExternal" /\ last'.op = "FreeEmptyPages" /\ ~ub) => ~ub']_vars

\* C34: in any history of Allocate, Free, FreeEmptyPages and SetDebugState in which
\* the caller writes nothing outside the objects it holds, Free of a pointer the
\* caller holds raises no error, debug having been switched or not.
C34_NoSpuriousErrors ==
    [][(last'.op = "Free" /\ last'.arg \in held) => last'.result = "Ok"]_vars

\* how the chain that starts at cur ends: at NULL, in a node met before, or in an
\* address outside the live pages
RECURSIVE ChainEnd(_, _, _)
ChainEnd(m, cur, seen) ==
    IF cur = NULL THEN "null"
    ELSE IF cur \in seen THEN "cycle"
    ELSE IF OutOfBounds(m, cur, PtrSize) THEN "wild"
    ELSE ChainEnd(m, ReadPtr(m, cur, 0), seen \cup {cur})

\* C35: with DebugOn_ for the whole run and Free called only with pointers Allocate
\* returned (some more than once), after every call the free list is a chain of
\* distinct nodes that ends at NULL, and no call is stuck in a walk of it.
C35_FreeListIsFiniteChain ==
    /\ ChainEnd(mem, FreeList_, {}) = "null"
    /\ last.result # "Hang"

\* the pages on the page list
PagesOnList == FreeListNodes(mem, PageList_, {})

\* C36: with MaxPages_ = N > 0, after construction and after every Allocate, Free
\* and FreeEmptyPages the page list holds at most N pages, and the caller holds at
\* most N * ObjectsPerPage_ blocks.
C36_PageLimitHolds ==
    cfg.MaxPages_ > 0 =>
        /\ Cardinality(PagesOnList) <= cfg.MaxPages_
        /\ Cardinality(LivePages) <= cfg.MaxPages_
        /\ Cardinality(held) <= cfg.MaxPages_ * cfg.ObjectsPerPage_

\* the limit has acted: the page list holds MaxPages_ pages, every block is held
\* and Allocate has raised E_NO_PAGES
C36_Witness ==
    /\ cfg.MaxPages_ > 0
    /\ Cardinality(PagesOnList) = cfg.MaxPages_
    /\ Cardinality(held) = cfg.MaxPages_ * cfg.ObjectsPerPage_
    /\ last.op = "Allocate"
    /\ last.result = "E_NO_PAGES"

=============================================================================
